---- MODULE Spec2Model ----
(***************************************************************************)
(* Theme preference resolution and persistence of the portfolio site.      *)
(*                                                                         *)
(* The repository holds three implementations of initTheme:                *)
(*   "legacy"  src/unnamed/part_000:25-43    localStorage, no system query *)
(*   "session" src/unnamed/part_000:316-364  sessionStorage, matchMedia    *)
(*                                           read at load + change listener*)
(*   "local"   src/assets/js/script.js:118-163 localStorage, matchMedia    *)
(*                                           read at load only             *)
(* A page runs exactly one of them; impl records which one.                *)
(*                                                                         *)
(* The page is a record [toggleBtn, dark, icon, theme, error]:             *)
(*   toggleBtn  document.getElementById('themeToggle') is not null         *)
(*   dark       body.classList.contains('dark-theme')                      *)
(*   icon       content of the toggle control ("none" when it is absent)   *)
(*   theme      storage.getItem('theme')                                   *)
(*   error      a handler dereferenced the null toggle control (TypeError) *)
(***************************************************************************)
EXTENDS Integers, Sequences, FiniteSets, TLC

\* The page: pc is "loading" until the DOMContentLoaded listener has run,
\* lastEvent is the event handled last.
VARIABLES pc, lastEvent

\* Theme toggle.
VARIABLES impl, toggleBtn, bodyDark, icon, theme, systemPrefersDark,
          error, snap, choice

\* Mobile menu.
VARIABLES menuImpl, menuBtn, navLinks, nLinks, navOpen, menuIcon,
          menuMarkup, wasOpen, lastLink

\* Portfolio filter.
VARIABLES filterImpl, filterBtns, cards, noProjects, display, opacity,
          fading, msgDisplay, active

\* Directional scroll buttons.
VARIABLES btnUp, btnDown, upShown, downShown, scrollY, lastScrollY,
          maxScroll, scrollMarkup, scrollTarget

\* Typewriter.
VARIABLES typeImpl, typed, typedIndex, charIndex, textContent, timer,
          lastFull

themeVars == <<impl, toggleBtn, bodyDark, icon, theme, systemPrefersDark,
               error, snap, choice>>

menuVars == <<menuImpl, menuBtn, navLinks, nLinks, navOpen, menuIcon,
              menuMarkup, wasOpen, lastLink>>

filterVars == <<filterImpl, filterBtns, cards, noProjects, display, opacity,
                fading, msgDisplay, active>>

scrollVars == <<btnUp, btnDown, upShown, downShown, scrollY, lastScrollY,
                maxScroll, scrollMarkup, scrollTarget>>

typeVars == <<typeImpl, typed, typedIndex, charIndex, textContent, timer,
              lastFull>>

vars == <<pc, lastEvent, themeVars, menuVars, filterVars, scrollVars,
          typeVars>>

\* The DOMContentLoaded listener calls one init function per feature, and the
\* features share no state.  Each specification below follows one feature on
\* a page where the elements of the other features are absent.
notTheme == <<menuVars, filterVars, scrollVars, typeVars>>
notMenu == <<themeVars, filterVars, scrollVars, typeVars>>
notFilter == <<themeVars, menuVars, scrollVars, typeVars>>
notScroll == <<themeVars, menuVars, filterVars, typeVars>>
notType == <<themeVars, menuVars, filterVars, scrollVars>>

\* getItem returns null when the key is absent.
null == "<null>"

\* Values the 'theme' entry can hold when a page starts: absent, the two
\* strings the click handler writes, and strings written by something else
\* (a non-empty one and the empty one, which differ under JavaScript's !).
StoredValues == {null, "dark", "light", "blue", ""}

Impls == {"legacy", "session", "local"}

\* What the toggle control shows in the page's markup before any script ran.
MarkupIcons == {"sun", "moon"}

\* JavaScript truthiness of a getItem result: null and "" are falsy.
Truthy(v) == v # null /\ v # ""

\* isDark ? 'dark' : 'light'
ThemeName(isDark) == IF isDark THEN "dark" ELSE "light"

\* The page as one record, the argument and result of every handler.
page == [toggleBtn |-> toggleBtn, dark |-> bodyDark, icon |-> icon,
         theme |-> theme, error |-> error]

(***************************************************************************)
(* "session" implementation, src/unnamed/part_000:316-364                  *)
(***************************************************************************)

\* applyTheme written with classList.toggle: the class flips on every call
\* with isDark true instead of being set.
applyThemeToggling(isDark, s) ==
  IF isDark
    THEN [s EXCEPT !.dark = ~s.dark,
                   !.icon = IF s.toggleBtn THEN "sun" ELSE s.icon]
    ELSE [s EXCEPT !.dark = FALSE,
                   !.icon = IF s.toggleBtn THEN "moon" ELSE s.icon]

\* applyTheme(isDark): class on the body, then the icon if the control exists.
applyTheme(isDark, s) ==
  IF isDark
    THEN [s EXCEPT !.dark = TRUE,
                   !.icon = IF s.toggleBtn THEN "sun" ELSE s.icon]
    ELSE [s EXCEPT !.dark = FALSE,
                   !.icon = IF s.toggleBtn THEN "moon" ELSE s.icon]

\* initTheme that also stores the theme it resolved.
initThemeSessionSaving(matches, s) ==
  IF s.theme = "dark" THEN applyTheme(TRUE, s)
  ELSE IF s.theme = "light" THEN applyTheme(FALSE, s)
  ELSE [applyTheme(matches, s) EXCEPT !.theme = ThemeName(matches)]

\* Body of initTheme up to the listener registrations.
initThemeSession(matches, s) ==
  IF s.theme = "dark" THEN applyTheme(TRUE, s)
  ELSE IF s.theme = "light" THEN applyTheme(FALSE, s)
  ELSE applyTheme(matches, s)

\* The change listener without its test of the stored preference.
onMediaChangeUnguarded(matches, s) == applyTheme(matches, s)

\* mediaQuery 'change' listener.
onMediaChange(matches, s) ==
  IF ~Truthy(s.theme) THEN applyTheme(matches, s) ELSE s

\* The click listener storing the name of the state before the click.
onClickSessionStale(s) ==
  LET isDarkNow == s.dark
      newMode == ~isDarkNow
  IN [applyTheme(newMode, s) EXCEPT !.theme = ThemeName(isDarkNow)]

\* toggleBtn 'click' listener.
onClickSession(s) ==
  LET isDarkNow == s.dark
      newMode == ~isDarkNow
  IN [applyTheme(newMode, s) EXCEPT !.theme = ThemeName(newMode)]

(***************************************************************************)
(* "local" implementation, src/assets/js/script.js:118-163                 *)
(***************************************************************************)

\* updateIcon without its early return: writing innerHTML of a null control
\* throws.
updateIconUnguarded(isDark, s) ==
  IF ~s.toggleBtn THEN [s EXCEPT !.error = TRUE]
  ELSE [s EXCEPT !.icon = IF isDark THEN "sun" ELSE "moon"]

\* updateIcon(isDark): returns at once when the control is absent.
updateIcon(isDark, s) ==
  IF ~s.toggleBtn THEN s
  ELSE [s EXCEPT !.icon = IF isDark THEN "sun" ELSE "moon"]

\* initTheme that tests the system preference before the saved one.
initThemeSystemFirst(matches, s) ==
  IF matches THEN updateIcon(TRUE, [s EXCEPT !.dark = TRUE])
  ELSE IF s.theme = "dark" THEN updateIcon(TRUE, [s EXCEPT !.dark = TRUE])
  ELSE IF s.theme = "light" THEN updateIcon(FALSE, [s EXCEPT !.dark = FALSE])
  ELSE updateIcon(FALSE, s)

\* Body of initTheme up to the listener registration.  The last branch
\* only updates the icon: the class on the body is left as the markup has it.
initTheme(matches, s) ==
  IF s.theme = "dark" THEN updateIcon(TRUE, [s EXCEPT !.dark = TRUE])
  ELSE IF s.theme = "light" THEN updateIcon(FALSE, [s EXCEPT !.dark = FALSE])
  ELSE IF matches THEN updateIcon(TRUE, [s EXCEPT !.dark = TRUE])
  ELSE updateIcon(FALSE, s)

\* The click listener without its setItem call.
onClickNoSave(s) ==
  LET t == [s EXCEPT !.dark = ~s.dark]
      isDark == t.dark
  IN updateIcon(isDark, t)

\* toggleBtn 'click' listener.
onClick(s) ==
  LET t == [s EXCEPT !.dark = ~s.dark]
      isDark == t.dark
  IN updateIcon(isDark, [t EXCEPT !.theme = ThemeName(isDark)])

(***************************************************************************)
(* "legacy" implementation, src/unnamed/part_000:25-43                     *)
(***************************************************************************)

\* Body of initTheme up to the listener registration.
initThemeLegacy(s) ==
  IF s.theme = "dark"
    THEN [s EXCEPT !.dark = TRUE,
                   !.icon = IF s.toggleBtn THEN "sun" ELSE s.icon]
    ELSE [s EXCEPT !.dark = FALSE,
                   !.icon = IF s.toggleBtn THEN "moon" ELSE s.icon]

\* toggleBtn 'click' listener.
onClickLegacy(s) ==
  LET isDark == ~s.dark
  IN [s EXCEPT !.dark = isDark,
               !.theme = ThemeName(isDark),
               !.icon = IF isDark THEN "sun" ELSE "moon"]

(***************************************************************************)
(* The page as a state machine                                             *)
(***************************************************************************)

\* A page without the menu button and the drawer.
NoMenu ==
  /\ menuImpl = "initMenu"
  /\ menuBtn = FALSE /\ navLinks = FALSE /\ nLinks = 0
  /\ navOpen = FALSE /\ menuIcon = "none"
  /\ menuMarkup = [open |-> FALSE, icon |-> "none"]
  /\ wasOpen = FALSE /\ lastLink = 0

\* A page without filter buttons and project cards.
NoFilter ==
  /\ filterImpl = "initPortfolio"
  /\ filterBtns = FALSE /\ cards = <<>> /\ noProjects = FALSE
  /\ display = <<>> /\ opacity = <<>> /\ fading = {}
  /\ msgDisplay = "unset" /\ active = "none"

\* A page without scroll buttons that is never scrolled.
NoScroll ==
  /\ btnUp = FALSE /\ btnDown = FALSE
  /\ upShown = FALSE /\ downShown = FALSE
  /\ scrollY = 0 /\ lastScrollY = 0 /\ maxScroll = 0
  /\ scrollMarkup = [up |-> FALSE, down |-> FALSE]
  /\ scrollTarget = "none"

\* A page without the #typed element: typeEffect returns at once.
NoTyped ==
  /\ typeImpl = "script"
  /\ typed = FALSE /\ typedIndex = 0 /\ charIndex = 0
  /\ textContent = <<>> /\ timer = 0 /\ lastFull = -1

Init ==
  /\ impl \in Impls
  /\ pc = "loading"
  /\ toggleBtn \in BOOLEAN
  /\ bodyDark \in BOOLEAN
  /\ icon \in (IF toggleBtn THEN MarkupIcons ELSE {"none"})
  /\ theme \in StoredValues
  /\ systemPrefersDark \in BOOLEAN
  /\ error = FALSE
  /\ lastEvent = "none"
  /\ snap = <<>>
  /\ choice = "none"
  /\ NoMenu
  /\ NoFilter
  /\ NoScroll
  /\ NoTyped

\* Writes a handler's result back to the page.
Becomes(r) ==
  /\ bodyDark' = r.dark
  /\ icon' = r.icon
  /\ theme' = r.theme
  /\ error' = r.error
  /\ toggleBtn' = r.toggleBtn

\* DOMContentLoaded: initTheme runs and registers its listeners.
DOMContentLoaded ==
  /\ pc = "loading"
  /\ Becomes(CASE impl = "legacy" -> initThemeLegacy(page)
               [] impl = "session" -> initThemeSession(systemPrefersDark, page)
               [] impl = "local" -> initTheme(systemPrefersDark, page))
  /\ pc' = "ready"
  /\ lastEvent' = "load"
  /\ snap' = <<>>
  /\ UNCHANGED <<impl, systemPrefersDark, choice>>
  /\ UNCHANGED notTheme

\* A click on the toggle control; the listener exists only when the control
\* does and initTheme has run.
ToggleClick ==
  /\ pc = "ready"
  /\ toggleBtn
  /\ LET r == CASE impl = "legacy" -> onClickLegacy(page)
                [] impl = "session" -> onClickSession(page)
                [] impl = "local" -> onClick(page)
     IN /\ Becomes(r)
        /\ choice' = ThemeName(r.dark)
  /\ snap' = (IF Len(snap) = 2 THEN <<snap[2]>> ELSE snap)
               \o <<[dark |-> bodyDark, icon |-> icon]>>
  /\ lastEvent' = "click"
  /\ UNCHANGED <<impl, pc, systemPrefersDark>>
  /\ UNCHANGED notTheme

\* The system colour scheme changes.  Only the "session" implementation has
\* registered a listener, and only once initTheme has run.
SystemChange ==
  /\ systemPrefersDark' = ~systemPrefersDark
  /\ Becomes(IF impl = "session" /\ pc = "ready"
               THEN onMediaChange(systemPrefersDark', page)
               ELSE page)
  /\ lastEvent' = "change"
  /\ snap' = <<>>
  /\ UNCHANGED <<impl, pc, choice>>
  /\ UNCHANGED notTheme

\* The user reloads or opens another page of the site: a fresh document
\* from the markup, the same store and the same system preference.
Navigate ==
  /\ pc = "ready"
  /\ pc' = "loading"
  /\ toggleBtn' \in BOOLEAN
  /\ bodyDark' \in BOOLEAN
  /\ icon' \in (IF toggleBtn' THEN MarkupIcons ELSE {"none"})
  /\ error' = FALSE
  /\ lastEvent' = "navigate"
  /\ snap' = <<>>
  /\ UNCHANGED <<impl, theme, systemPrefersDark, choice>>
  /\ UNCHANGED notTheme

Next == DOMContentLoaded \/ ToggleClick \/ SystemChange \/ Navigate

Spec == Init /\ [][Next]_vars

TypeOK ==
  /\ impl \in Impls
  /\ pc \in {"loading", "ready"}
  /\ toggleBtn \in BOOLEAN
  /\ bodyDark \in BOOLEAN
  /\ icon \in {"none", "sun", "moon"}
  /\ theme \in StoredValues
  /\ systemPrefersDark \in BOOLEAN
  /\ error \in BOOLEAN
  /\ lastEvent \in {"none", "load", "click", "change", "navigate",
                    "menu", "link", "filter", "fade", "scroll", "up", "down",
                    "timer"}
  /\ Len(snap) <= 2
  /\ choice \in {"none", "dark", "light"}


(***************************************************************************)
(* Properties                                                              *)
(***************************************************************************)

\* C1: right after initTheme has run with a stored preference that is absent,
\* "dark" or "light", the body is dark if and only if the stored preference
\* is "dark", or it is absent and the system prefers dark.
C1_InitialResolution ==
  (lastEvent = "load" /\ theme \in {null, "dark", "light"})
    => (bodyDark <=> (theme = "dark" \/ (theme = null /\ systemPrefersDark)))

\* C2: every click on the toggle control negates the dark flag of the body
\* and leaves the stored theme "dark" when the new state is dark and "light"
\* otherwise.
C2_ToggleFlipsAndSaves ==
  [][lastEvent' = "click"
       => /\ bodyDark' = ~bodyDark
          /\ theme' = (IF bodyDark' THEN "dark" ELSE "light")]_vars

\* A click has just turned a light page dark and stored "dark".
C2_Witness ==
  /\ lastEvent = "click"
  /\ Len(snap) >= 1 /\ ~snap[Len(snap)].dark
  /\ bodyDark /\ theme = "dark"

\* C3: while the store holds a preference ("dark" or "light"), a system
\* colour-scheme change leaves the dark flag, the icon and the store as they
\* were, and a page load applies the stored preference whatever the system
\* prefers.
C3_StoredWinsOverSystem ==
  /\ [][(lastEvent' = "change" /\ theme \in {"dark", "light"})
          => (bodyDark' = bodyDark /\ icon' = icon /\ theme' = theme)]_vars
  /\ []((lastEvent = "load" /\ theme \in {"dark", "light"})
          => (bodyDark <=> theme = "dark"))

\* The listener of the "session" implementation has just run with the system
\* turning dark while "light" is stored, and the page is still light.
C3_Witness ==
  /\ lastEvent = "change" /\ impl = "session" /\ pc = "ready"
  /\ theme = "light" /\ systemPrefersDark
  /\ ~bodyDark /\ toggleBtn /\ icon = "moon"

\* C4: while nothing is stored, a system colour-scheme change to m on a
\* loaded page makes the body dark if m is true and light if m is false.
C4_SystemChangeApplied ==
  (lastEvent = "change" /\ pc = "ready" /\ theme = null)
    => (bodyDark <=> systemPrefersDark)

\* C5: only the click handler writes the stored theme (page load, system
\* changes and navigation leave it as it is), and once present it is never
\* removed.
C5_OnlyClickWritesStore ==
  [][/\ (lastEvent' # "click" => theme' = theme)
     /\ (theme # null => theme' # null)]_vars

\* initTheme has resolved a dark theme from the system preference and the
\* store is still empty.
C5_Witness ==
  /\ lastEvent = "load" /\ impl = "session"
  /\ theme = null /\ systemPrefersDark /\ bodyDark

\* C6: after a click that left state S, every later page load applies S,
\* whatever the system preference, until the next click.
C6_ChoicePersists ==
  (lastEvent = "load" /\ choice # "none") => (bodyDark <=> choice = "dark")

\* A page has loaded light after the user chose light, although the system
\* prefers dark.
C6_Witness ==
  /\ lastEvent = "load" /\ impl = "local"
  /\ choice = "light" /\ systemPrefersDark /\ ~bodyDark

\* C7: on a loaded page with a toggle control, the control shows the sun
\* exactly when the body is dark and the moon exactly when it is not.
C7_IconMatchesFlag ==
  (pc = "ready" /\ toggleBtn)
    => /\ (icon = "sun" <=> bodyDark)
       /\ (icon = "moon" <=> ~bodyDark)

\* C8: from every reachable page state, applying a theme twice (applyTheme,
\* and the icon update updateIcon) leaves the page as applying it once.
C8_ApplyIdempotent ==
  \A isDark \in BOOLEAN :
    /\ applyTheme(isDark, applyTheme(isDark, page)) = applyTheme(isDark, page)
    /\ updateIcon(isDark, updateIcon(isDark, page)) = updateIcon(isDark, page)

\* applyTheme has just turned the page dark on a system change, and applying
\* the other theme would change both the flag and the icon.
C8_Witness ==
  /\ lastEvent = "change" /\ impl = "session" /\ pc = "ready"
  /\ theme = null /\ toggleBtn /\ bodyDark /\ icon = "sun"
  /\ applyTheme(FALSE, page).dark # bodyDark
  /\ applyTheme(FALSE, page).icon # icon

\* C9: after two clicks in a row the dark flag and the icon are those before
\* the first click, and the store holds the name of that state.
C9_DoubleClickRestores ==
  Len(snap) = 2
    => /\ bodyDark = snap[1].dark
       /\ icon = snap[1].icon
       /\ theme = (IF bodyDark THEN "dark" ELSE "light")

C11_MalformedLikeAbsent ==
  (theme \notin {null, "dark", "light"}
     /\ (lastEvent = "load" \/ (lastEvent = "change" /\ pc = "ready")))
    => (bodyDark <=> systemPrefersDark)

\* C16: on a loaded page, whenever the store holds "dark" or "light", the
\* body is dark if and only if the store holds "dark".
C16_FlagMatchesStore ==
  (pc = "ready" /\ theme \in {"dark", "light"})
    => (bodyDark <=> theme = "dark")

\* After a click chose dark and the system then turned light, the page and
\* the store are both still dark.
C16_Witness ==
  /\ pc = "ready" /\ impl = "session" /\ lastEvent = "change"
  /\ choice = "dark" /\ theme = "dark" /\ bodyDark /\ ~systemPrefersDark

(***************************************************************************)
(* Mobile menu                                                             *)
(*   "initMenuToggle" src/unnamed/part_000:51-66   toggles .open on        *)
(*                    .main-nav, leaves the button's content alone         *)
(*   "initMenu"       src/assets/js/script.js:167-182 (the same code at    *)
(*                    src/unnamed/part_000:368-383) toggles .open on       *)
(*                    .nav-links and swaps the button's icon               *)
(* The drawer is a record [open, icon]: the open class of the nav element  *)
(* and the icon inside the menu button.                                    *)
(***************************************************************************)

MenuImpls == {"initMenuToggle", "initMenu"}

\* Largest number of links in the drawer.
MaxLinks == 2

\* What the menu button shows in the page's markup.
MenuMarkupIcons == {"bars", "xmark"}

drawer == [open |-> navOpen, icon |-> menuIcon]

\* menuBtn 'click' listener of initMenu.
onMenuClick(m) ==
  LET open == ~m.open
  IN [open |-> open, icon |-> IF open THEN "xmark" ELSE "bars"]

\* The link listener written with classList.toggle.
onLinkClickToggling(m) == [m EXCEPT !.open = ~m.open]

\* link 'click' listener of initMenu.
onLinkClick(m) == [m EXCEPT !.open = FALSE]

\* menuToggle 'click' listener of initMenuToggle.
onMenuClickLegacy(m) == [m EXCEPT !.open = ~m.open]

\* link 'click' listener of initMenuToggle.
onLinkClickLegacy(m) == [m EXCEPT !.open = FALSE]

\* A page without the theme toggle; the theme is not followed.
ThemeHeld ==
  /\ impl = "local"
  /\ toggleBtn = FALSE /\ bodyDark = FALSE /\ icon = "none"
  /\ theme = null /\ systemPrefersDark = FALSE
  /\ error = FALSE /\ snap = <<>> /\ choice = "none"

InitMenu ==
  /\ pc = "loading"
  /\ lastEvent = "none"
  /\ menuImpl \in MenuImpls
  /\ menuBtn \in BOOLEAN
  /\ navLinks \in BOOLEAN
  /\ nLinks \in (IF navLinks THEN 0..MaxLinks ELSE {0})
  /\ navOpen \in (IF navLinks THEN BOOLEAN ELSE {FALSE})
  /\ menuIcon \in (IF menuBtn THEN MenuMarkupIcons ELSE {"none"})
  /\ menuMarkup = drawer
  /\ wasOpen = navOpen
  /\ lastLink = 0
  /\ ThemeHeld
  /\ NoFilter
  /\ NoScroll
  /\ NoTyped

\* DOMContentLoaded: the menu's init function registers its listeners when
\* both the button and the drawer exist; it changes nothing on the page.
MenuLoaded ==
  /\ pc = "loading"
  /\ pc' = "ready"
  /\ lastEvent' = "load"
  /\ UNCHANGED menuVars
  /\ UNCHANGED notMenu

\* A click on the menu button.
MenuClick ==
  /\ pc = "ready"
  /\ menuBtn /\ navLinks
  /\ LET r == IF menuImpl = "initMenu" THEN onMenuClick(drawer)
              ELSE onMenuClickLegacy(drawer)
     IN navOpen' = r.open /\ menuIcon' = r.icon
  /\ wasOpen' = navOpen
  /\ lastEvent' = "menu"
  /\ UNCHANGED <<pc, menuImpl, menuBtn, navLinks, nLinks, menuMarkup, lastLink>>
  /\ UNCHANGED notMenu

\* A click on the i-th link of the drawer.
LinkClick ==
  /\ pc = "ready"
  /\ menuBtn /\ navLinks
  /\ \E i \in 1..nLinks :
       /\ LET r == IF menuImpl = "initMenu" THEN onLinkClick(drawer)
                   ELSE onLinkClickLegacy(drawer)
          IN navOpen' = r.open /\ menuIcon' = r.icon
       /\ lastLink' = i
  /\ wasOpen' = navOpen
  /\ lastEvent' = "link"
  /\ UNCHANGED <<pc, menuImpl, menuBtn, navLinks, nLinks, menuMarkup>>
  /\ UNCHANGED notMenu

NextMenu == MenuLoaded \/ MenuClick \/ LinkClick

SpecMenu == InitMenu /\ [][NextMenu]_vars

\* C12: every click on the menu button inverts the open state of the drawer,
\* and every click on a link of the drawer leaves it closed.
C12_MenuTogglesLinkCloses ==
  [][/\ (lastEvent' = "menu" => navOpen' = ~navOpen)
     /\ (lastEvent' = "link" => ~navOpen')]_vars

\* A click on the second link has just closed an open drawer.
C12_Witness ==
  /\ lastEvent = "link" /\ lastLink = 2 /\ wasOpen /\ ~navOpen

\* C17: with initMenu, on a page whose markup has the drawer closed and the
\* bars icon, the button shows the xmark exactly when the drawer is open and
\* the bars exactly when it is closed.
C17_MenuIconMatchesDrawer ==
  (menuImpl = "initMenu" /\ menuBtn /\ navLinks
     /\ menuMarkup = [open |-> FALSE, icon |-> "bars"])
    => /\ (menuIcon = "xmark" <=> navOpen)
       /\ (menuIcon = "bars" <=> ~navOpen)

(***************************************************************************)
(* Portfolio filter                                                        *)
(*   "initPortfolioFilters" src/unnamed/part_000:169-198   one listener on *)
(*                          .filter-buttons, registered only when there    *)
(*                          are project cards                              *)
(*   "initPortfolio"        src/assets/js/script.js:206-233 (the same code *)
(*                          at src/unnamed/part_000:407-434) one listener  *)
(*                          per .filter-btn                                *)
(* The grid is a record [cards, noProjects, display, opacity, fading, msg, *)
(* active]: the data-category of each card, whether #noProjects exists,    *)
(* style.display and style.opacity of each card ("unset" as in the         *)
(* markup), the cards with a pending fade-in timer, style.display of       *)
(* #noProjects and the data-filter of the button carrying .active.         *)
(***************************************************************************)

FilterImpls == {"initPortfolioFilters", "initPortfolio"}

\* Largest number of project cards on the page.
MaxCards == 2

\* data-category values of the cards.
Categories == {"web", "app"}

\* data-filter values of the buttons.
FilterValues == {"all", "web", "app", "design"}

grid == [cards |-> cards, noProjects |-> noProjects, display |-> display,
         opacity |-> opacity, fading |-> fading, msg |-> msgDisplay,
         active |-> active]

\* filter === 'all' || card.getAttribute('data-category') === filter
Shown(filter, category) == filter = "all" \/ category = filter

\* The click listener of initPortfolioFilters for a click on a button.
onFilterClickLegacy(filter, g) ==
  LET hasVisible == \E i \in 1..Len(g.cards) : Shown(filter, g.cards[i])
  IN [g EXCEPT
        !.active = filter,
        !.display = [i \in 1..Len(g.cards) |->
                       IF Shown(filter, g.cards[i]) THEN "flex" ELSE "none"],
        !.msg = IF filter = "app" /\ ~hasVisible /\ g.noProjects THEN "block"
                ELSE IF g.noProjects THEN "none"
                ELSE g.msg]

\* The click listener of initPortfolio for the button with data-filter filter.
onFilterClick(filter, g) ==
  LET count == Cardinality({i \in 1..Len(g.cards) : Shown(filter, g.cards[i])})
  IN [g EXCEPT
        !.active = filter,
        !.display = [i \in 1..Len(g.cards) |->
                       IF Shown(filter, g.cards[i]) THEN "flex" ELSE "none"],
        !.opacity = [i \in 1..Len(g.cards) |->
                       IF Shown(filter, g.cards[i]) THEN "0" ELSE g.opacity[i]],
        !.fading = g.fading \cup
                     {i \in 1..Len(g.cards) : Shown(filter, g.cards[i])},
        !.msg = IF ~g.noProjects THEN g.msg
                ELSE IF count = 0 THEN "block" ELSE "none"]

\* All sequences over S of length at most n.
SeqsUpTo(S, n) == UNION {[1..k -> S] : k \in 0..n}

InitFilter ==
  /\ pc = "loading"
  /\ lastEvent = "none"
  /\ filterImpl \in FilterImpls
  /\ filterBtns \in BOOLEAN
  /\ cards \in SeqsUpTo(Categories, MaxCards)
  /\ noProjects \in BOOLEAN
  /\ display = [i \in 1..Len(cards) |-> "unset"]
  /\ opacity = [i \in 1..Len(cards) |-> "unset"]
  /\ fading = {}
  /\ msgDisplay = "unset"
  /\ active \in {"none", "all"}
  /\ ThemeHeld
  /\ NoMenu
  /\ NoScroll
  /\ NoTyped

\* DOMContentLoaded: the filter's init function registers its listeners; it
\* changes nothing on the page.
FilterLoaded ==
  /\ pc = "loading"
  /\ pc' = "ready"
  /\ lastEvent' = "load"
  /\ UNCHANGED filterVars
  /\ UNCHANGED notFilter

\* A click on the button with data-filter f.  initPortfolioFilters has a
\* listener only when the page has project cards, initPortfolio whenever it
\* has buttons.
FilterClick ==
  /\ pc = "ready"
  /\ filterBtns
  /\ filterImpl = "initPortfolioFilters" => Len(cards) > 0
  /\ \E f \in FilterValues :
       LET r == IF filterImpl = "initPortfolio" THEN onFilterClick(f, grid)
                ELSE onFilterClickLegacy(f, grid)
       IN /\ display' = r.display
          /\ opacity' = r.opacity
          /\ fading' = r.fading
          /\ msgDisplay' = r.msg
          /\ active' = r.active
  /\ lastEvent' = "filter"
  /\ UNCHANGED <<pc, filterImpl, filterBtns, cards, noProjects>>
  /\ UNCHANGED notFilter

\* A fade-in timer of initPortfolio fires (50 ms after the click): the card
\* becomes opaque.  Timers of earlier clicks on the same card have the same
\* effect, so fading keeps the cards rather than the timers.
FadeIn ==
  /\ \E i \in fading :
       /\ opacity' = [opacity EXCEPT ![i] = "1"]
       /\ fading' = fading \ {i}
  /\ lastEvent' = "fade"
  /\ UNCHANGED <<pc, filterImpl, filterBtns, cards, noProjects, display,
                 msgDisplay, active>>
  /\ UNCHANGED notFilter

NextFilter == FilterLoaded \/ FilterClick \/ FadeIn

SpecFilter == InitFilter /\ [][NextFilter]_vars

\* C13: right after a click on the button with data-filter f, a card is
\* displayed if and only if f is "all" or equals its data-category, and
\* #noProjects (when the page has it) is shown if and only if no card
\* matches f.
C13_FilterShowsMatches ==
  lastEvent = "filter"
    => /\ \A i \in 1..Len(cards) :
            /\ display[i] \in {"flex", "none"}
            /\ display[i] = "flex" <=> Shown(active, cards[i])
       /\ noProjects =>
            /\ msgDisplay \in {"block", "none"}
            /\ msgDisplay = "block"
                 <=> ~\E i \in 1..Len(cards) : Shown(active, cards[i])

(***************************************************************************)
(* Directional scroll buttons, src/assets/js/script.js:61-106 (the same    *)
(* code at src/unnamed/part_000:259-304)                                   *)
(* The buttons are a record [btnUp, btnDown, up, down, last]: whether      *)
(* #btnPageUp and #btnPageDown exist, whether each carries the show class, *)
(* and lastScrollY.                                                        *)
(***************************************************************************)

\* Distance from the top and from the bottom within which a button is hidden.
Threshold == 50

\* Scroll positions and page heights are multiples of Step, up to
\* MaxStops * Step.
Step == 25
MaxStops == 8

Positions == {k * Step : k \in 0..MaxStops}

buttons == [btnUp |-> btnUp, btnDown |-> btnDown, up |-> upShown,
            down |-> downShown, last |-> lastScrollY]

\* The scroll listener with the top test written >=.
onScrollInclusive(currentScrollY, max, b) ==
  IF currentScrollY > b.last
    THEN [b EXCEPT
            !.up = FALSE,
            !.down = b.btnDown /\ currentScrollY < (max - Threshold),
            !.last = currentScrollY]
    ELSE [b EXCEPT
            !.down = FALSE,
            !.up = b.btnUp /\ currentScrollY >= Threshold,
            !.last = currentScrollY]

\* The scroll listener without 'hide Up' in its scrolling-down branch.
onScrollKeepsUp(currentScrollY, max, b) ==
  IF currentScrollY > b.last
    THEN [b EXCEPT
            !.down = b.btnDown /\ currentScrollY < (max - Threshold),
            !.last = currentScrollY]
    ELSE [b EXCEPT
            !.down = FALSE,
            !.up = b.btnUp /\ currentScrollY > Threshold,
            !.last = currentScrollY]

\* The scroll listener.  A button that does not exist never carries show, so
\* removing the class from it and skipping it are the same.
onScroll(currentScrollY, max, b) ==
  IF currentScrollY > b.last
    THEN [b EXCEPT
            !.up = FALSE,
            !.down = b.btnDown /\ currentScrollY < (max - Threshold),
            !.last = currentScrollY]
    ELSE [b EXCEPT
            !.down = FALSE,
            !.up = b.btnUp /\ currentScrollY > Threshold,
            !.last = currentScrollY]

InitScroll ==
  /\ pc = "loading"
  /\ lastEvent = "none"
  /\ btnUp \in BOOLEAN
  /\ btnDown \in BOOLEAN
  /\ upShown \in (IF btnUp THEN BOOLEAN ELSE {FALSE})
  /\ downShown \in (IF btnDown THEN BOOLEAN ELSE {FALSE})
  /\ scrollY \in Positions
  /\ lastScrollY = 0
  /\ maxScroll = 0
  /\ scrollMarkup = [up |-> upShown, down |-> downShown]
  /\ scrollTarget = "none"
  /\ ThemeHeld
  /\ NoMenu
  /\ NoFilter
  /\ NoTyped

\* DOMContentLoaded: initDirectionalScroll reads window.scrollY and registers
\* its listeners.
ScrollLoaded ==
  /\ pc = "loading"
  /\ pc' = "ready"
  /\ lastScrollY' = scrollY
  /\ lastEvent' = "load"
  /\ UNCHANGED <<btnUp, btnDown, upShown, downShown, scrollY, maxScroll,
                 scrollMarkup, scrollTarget>>
  /\ UNCHANGED notScroll

\* A scroll event: the window is at position y and the page height gives
\* scrollHeight - innerHeight = m.
Scroll ==
  /\ pc = "ready"
  /\ \E y \in Positions, m \in Positions :
       LET r == onScroll(y, m, buttons)
       IN /\ scrollY' = y
          /\ maxScroll' = m
          /\ upShown' = r.up
          /\ downShown' = r.down
          /\ lastScrollY' = r.last
  /\ lastEvent' = "scroll"
  /\ UNCHANGED <<pc, btnUp, btnDown, scrollMarkup, scrollTarget>>
  /\ UNCHANGED notScroll

\* A click on #btnPageUp: window.scrollTo({top: 0}).
BtnUpClick ==
  /\ pc = "ready"
  /\ btnUp
  /\ scrollTarget' = "top"
  /\ lastEvent' = "up"
  /\ UNCHANGED <<pc, btnUp, btnDown, upShown, downShown, scrollY,
                 lastScrollY, maxScroll, scrollMarkup>>
  /\ UNCHANGED notScroll

\* A click on #btnPageDown: window.scrollTo({top: scrollHeight}).
BtnDownClick ==
  /\ pc = "ready"
  /\ btnDown
  /\ scrollTarget' = "bottom"
  /\ lastEvent' = "down"
  /\ UNCHANGED <<pc, btnUp, btnDown, upShown, downShown, scrollY,
                 lastScrollY, maxScroll, scrollMarkup>>
  /\ UNCHANGED notScroll

NextScroll == ScrollLoaded \/ Scroll \/ BtnUpClick \/ BtnDownClick

SpecScroll == InitScroll /\ [][NextScroll]_vars

\* C14: after each scroll event, the Up button (when the page has it) is
\* shown if and only if the position did not increase and is above 50, and
\* the Down button (when the page has it) is shown if and only if the
\* position increased and is below maxScroll - 50.
C14_ButtonsFollowDirection ==
  [][lastEvent' = "scroll"
       => /\ btnUp => (upShown' <=> (~(scrollY' > lastScrollY)
                                       /\ scrollY' > Threshold))
          /\ btnDown => (downShown' <=> (scrollY' > lastScrollY
                                           /\ scrollY' < maxScroll' - Threshold))
    ]_vars

\* A scroll back up to a position above 50 has just shown the Up button.
C14_Witness ==
  /\ lastEvent = "scroll" /\ btnUp /\ btnDown
  /\ scrollY > Threshold /\ scrollY < maxScroll - Threshold
  /\ upShown /\ ~downShown

\* C18: on a page whose markup hides both buttons, the two buttons are never
\* shown together, and right after a scroll event at position 0 both are
\* hidden.
C18_NeverBothShown ==
  /\ scrollMarkup = [up |-> FALSE, down |-> FALSE]
       => ~(upShown /\ downShown)
  /\ (lastEvent = "scroll" /\ scrollY = 0) => (~upShown /\ ~downShown)

\* A scroll event at position 0 of a long page has just hidden both buttons.
C18_Witness ==
  /\ lastEvent = "scroll" /\ btnUp /\ btnDown
  /\ scrollMarkup = [up |-> FALSE, down |-> FALSE]
  /\ scrollY = 0 /\ maxScroll > Threshold
  /\ ~upShown /\ ~downShown

(***************************************************************************)
(* Typewriter                                                              *)
(*   "script" src/assets/js/script.js:37-45, 186-202 (the same code at     *)
(*            src/unnamed/part_000:235-243, 387-403): three phrases,       *)
(*            80 ms per character, 1500 ms after a phrase                  *)
(*   "legacy" src/unnamed/part_000:139-160: four phrases, 120 ms per       *)
(*            character, 1000 ms after a phrase                            *)
(* A phrase is the sequence of its characters.  The typewriter is a record *)
(* [typed, typedIndex, charIndex, text, timer]: whether #typed exists, the *)
(* two globals, textContent of #typed and the delay of the pending         *)
(* setTimeout (0 when none is pending).                                    *)
(***************************************************************************)

TypeImpls == {"script", "legacy"}

typedStrings ==
  <<
     <<"F", "r", "o", "n", "t", "-", "E", "n", "d", " ", "D", "e", "v", "e", "l", "o", "p", "e", "r">>,
     <<"P", "r", "o", "b", "l", "e", "m", " ", "S", "o", "l", "v", "e", "r">>,
     <<"W", "e", "b", " ", "E", "n", "t", "h", "u", "s", "i", "a", "s", "t">>
  >>

\* The first phrase has U+2011 in the source where this has "-".
typedStringsLegacy ==
  <<
     <<"F", "r", "o", "n", "t", "-", "E", "n", "d", " ", "D", "e", "v", "e", "l", "o", "p", "e", "r">>,
     <<"C", "r", "e", "a", "t", "i", "v", "e", " ", "P", "r", "o", "b", "l", "e", "m", " ", "S", "o", "l", "v", "e", "r">>,
     <<"T", "e", "c", "h", " ", "E", "n", "t", "h", "u", "s", "i", "a", "s", "t">>,
     <<"T", "e", "a", "m", " ", "C", "o", "l", "l", "a", "b", "o", "r", "a", "t", "o", "r">>
  >>

\* Delays of the two setTimeout calls, in milliseconds.
TypingDelay == 80
PauseDelay == 1500
TypingDelayLegacy == 120
PauseDelayLegacy == 1000

typewriter == [typed |-> typed, typedIndex |-> typedIndex,
               charIndex |-> charIndex, text |-> textContent, timer |-> timer]

\* typeEffect with the wrap test written > : typedStrings[length] is
\* undefined, substring throws and no timer is scheduled.
typeEffectLateWrap(w) ==
  IF ~w.typed THEN [w EXCEPT !.timer = 0]
  ELSE
    LET index == IF w.typedIndex > Len(typedStrings) THEN 0 ELSE w.typedIndex
    IN IF index >= Len(typedStrings) THEN [w EXCEPT !.timer = 0]
       ELSE
         LET currentText == typedStrings[index + 1]
             shown == SubSeq(currentText, 1, w.charIndex)
             next == w.charIndex + 1
         IN IF next > Len(currentText)
              THEN [w EXCEPT !.typedIndex = index + 1, !.charIndex = 0,
                             !.text = shown, !.timer = PauseDelay]
              ELSE [w EXCEPT !.typedIndex = index, !.charIndex = next,
                             !.text = shown, !.timer = TypingDelay]

\* typeEffect of script.js, called with no timer pending.  typedIndex is
\* 0-based as in the source; substring(0, n) is SubSeq(_, 1, n).
typeEffect(w) ==
  IF ~w.typed THEN [w EXCEPT !.timer = 0]
  ELSE
    LET index == IF w.typedIndex >= Len(typedStrings) THEN 0 ELSE w.typedIndex
        currentText == typedStrings[index + 1]
        shown == SubSeq(currentText, 1, w.charIndex)
        next == w.charIndex + 1
    IN IF next > Len(currentText)
         THEN [w EXCEPT !.typedIndex = index + 1, !.charIndex = 0,
                        !.text = shown, !.timer = PauseDelay]
         ELSE [w EXCEPT !.typedIndex = index, !.charIndex = next,
                        !.text = shown, !.timer = TypingDelay]

\* typeEffect of the older file.
typeEffectLegacy(w) ==
  IF ~w.typed THEN [w EXCEPT !.timer = 0]
  ELSE
    LET index == IF w.typedIndex >= Len(typedStringsLegacy) THEN 0
                 ELSE w.typedIndex
        currentText == typedStringsLegacy[index + 1]
        shown == SubSeq(currentText, 1, w.charIndex)
        next == w.charIndex + 1
    IN IF next > Len(currentText)
         THEN [w EXCEPT !.typedIndex = index + 1, !.charIndex = 0,
                        !.text = shown, !.timer = PauseDelayLegacy]
         ELSE [w EXCEPT !.typedIndex = index, !.charIndex = next,
                        !.text = shown, !.timer = TypingDelayLegacy]

\* The phrases of the implementation the page runs.
Phrases == IF typeImpl = "script" THEN typedStrings ELSE typedStringsLegacy

\* 0-based index of the phrase that text shows in full, -1 when it shows none.
FullPhrase(text) ==
  IF \E j \in 1..Len(Phrases) : Phrases[j] = text
    THEN (CHOOSE j \in 1..Len(Phrases) : Phrases[j] = text) - 1
    ELSE -1

InitType ==
  /\ pc = "loading"
  /\ lastEvent = "none"
  /\ typeImpl \in TypeImpls
  /\ typed \in BOOLEAN
  /\ typedIndex = 0
  /\ charIndex = 0
  /\ textContent = <<>>
  /\ timer = 0
  /\ lastFull = -1
  /\ ThemeHeld
  /\ NoMenu
  /\ NoFilter
  /\ NoScroll

\* One call of typeEffect; lastFull records the phrase shown in full last.
CallTypeEffect ==
  LET r == IF typeImpl = "script" THEN typeEffect(typewriter)
           ELSE typeEffectLegacy(typewriter)
  IN /\ typedIndex' = r.typedIndex
     /\ charIndex' = r.charIndex
     /\ textContent' = r.text
     /\ timer' = r.timer
     /\ lastFull' = IF FullPhrase(r.text) # -1 THEN FullPhrase(r.text)
                    ELSE lastFull
     /\ UNCHANGED <<typeImpl, typed>>

\* DOMContentLoaded: the listener calls typeEffect once.
TypeLoaded ==
  /\ pc = "loading"
  /\ pc' = "ready"
  /\ CallTypeEffect
  /\ lastEvent' = "load"
  /\ UNCHANGED notType

\* The pending timer fires and calls typeEffect.
TimerFires ==
  /\ timer # 0
  /\ CallTypeEffect
  /\ lastEvent' = "timer"
  /\ UNCHANGED pc
  /\ UNCHANGED notType

NextType == TypeLoaded \/ TimerFires

\* The page finishes loading and a pending timer eventually fires.
SpecType ==
  InitType /\ [][NextType]_vars /\ WF_vars(TypeLoaded) /\ WF_vars(TimerFires)

\* C15: with #typed on the page a timer is pending at every moment after
\* load, every phrase is shown in full again and again, and the phrase shown
\* in full after phrase i is phrase (i + 1) mod n; without #typed no timer
\* is ever pending.
C15_TypewriterRotates ==
  /\ []((typed /\ pc = "ready") => timer # 0)
  /\ [](~typed => timer = 0)
  /\ \A j \in 1..Len(typedStringsLegacy) :
       []<>(~typed \/ j > Len(Phrases) \/ textContent = Phrases[j])
  /\ [][lastFull' # lastFull
          => lastFull' = (IF lastFull = -1 THEN 0
                          ELSE (lastFull + 1) % Len(Phrases))]_vars

\* The last phrase is shown in full and the index waits to wrap to 0.
C15_Witness ==
  /\ typed /\ typeImpl = "script"
  /\ typedIndex = Len(typedStrings)
  /\ textContent = typedStrings[Len(typedStrings)]
  /\ lastFull = Len(typedStrings) - 1
  /\ timer = PauseDelay

====
